---- MODULE Spec2Model ----
(***************************************************************************)
(* Model of rut-lib: validation, parsing, formatting and generation of     *)
(* Chilean RUT identifiers (src/src/lib.rs, utils.rs, range.rs, error.rs). *)
(*                                                                         *)
(* A Rust `char` is modelled as its Unicode scalar value, a `String` as a  *)
(* sequence of scalar values, a `Result` as a record with a `kind` field   *)
(* ("Ok", one of the three Error variants, or "Panic" for an unwinding     *)
(* fault).  Integers of the model are exact; the u8 accumulator of         *)
(* sum_product keeps its width (wrapping or overflow check, see            *)
(* overflow_checks).                                                       *)
(***************************************************************************)
EXTENDS Integers, Sequences, FiniteSets

VARIABLES
    overflow_checks, \* build profile: TRUE = arithmetic overflow panics, FALSE = it wraps
    op,              \* the library entry point that ran last
    number_arg,      \* the u32 handed to from_number / generate_dv / drawn by randomize
    input_text,      \* the text handed to the last Rut::from
    input_mode,      \* how that text came to be: "typed", or the Format / "fmt" that rendered it
    unverified_rut,  \* what extract_from gave during the last Rut::from
    result,          \* what the last construction call gave back
    self,            \* the Rut that to_format / fmt was last called on
    format,          \* the Format of the last to_format
    output,          \* the String the last to_format / fmt returned
    checksum         \* the values of the last direct checksum computation

vars == <<overflow_checks, op, number_arg, input_text, input_mode, unverified_rut,
          result, self, format, output, checksum>>

----------------------------------------------------------------------------
(* Characters *)

Dot == 46
Hyphen == 45
Comma == 44
Zero == 48
UpperK == 75
LowerK == 107
KelvinSign == 8490

AsciiDigits == 48..57

\* char::to_digit(10): Some(value) for the ASCII digits only.
to_digit(char) == IF char \in AsciiDigits THEN [some |-> TRUE, value |-> char - Zero]
                  ELSE [some |-> FALSE, value |-> 0]

\* The blocks of the Unicode general category Nd (decimal digit), each as
\* <<first, last>>: 760 scalar values in 71 runs.
NdRanges ==
    {<<48, 57>>, <<1632, 1641>>, <<1776, 1785>>, <<1984, 1993>>,
     <<2406, 2415>>, <<2534, 2543>>, <<2662, 2671>>, <<2790, 2799>>,
     <<2918, 2927>>, <<3046, 3055>>, <<3174, 3183>>, <<3302, 3311>>,
     <<3430, 3439>>, <<3558, 3567>>, <<3664, 3673>>, <<3792, 3801>>,
     <<3872, 3881>>, <<4160, 4169>>, <<4240, 4249>>, <<6112, 6121>>,
     <<6160, 6169>>, <<6470, 6479>>, <<6608, 6617>>, <<6784, 6793>>,
     <<6800, 6809>>, <<6992, 7001>>, <<7088, 7097>>, <<7232, 7241>>,
     <<7248, 7257>>, <<42528, 42537>>, <<43216, 43225>>, <<43264, 43273>>,
     <<43472, 43481>>, <<43504, 43513>>, <<43600, 43609>>, <<44016, 44025>>,
     <<65296, 65305>>, <<66720, 66729>>, <<68912, 68921>>, <<68928, 68937>>,
     <<69734, 69743>>, <<69872, 69881>>, <<69942, 69951>>, <<70096, 70105>>,
     <<70384, 70393>>, <<70736, 70745>>, <<70864, 70873>>, <<71248, 71257>>,
     <<71360, 71369>>, <<71376, 71395>>, <<71472, 71481>>, <<71904, 71913>>,
     <<72016, 72025>>, <<72688, 72697>>, <<72784, 72793>>, <<73040, 73049>>,
     <<73120, 73129>>, <<73552, 73561>>, <<90416, 90425>>, <<92768, 92777>>,
     <<92864, 92873>>, <<93008, 93017>>, <<93552, 93561>>,
     <<118000, 118009>>, <<120782, 120831>>, <<123200, 123209>>,
     <<123632, 123641>>, <<124144, 124153>>, <<124401, 124410>>,
     <<125264, 125273>>, <<130032, 130041>>}

\* The regex class \d is Unicode-aware: it matches every scalar value of the
\* general category Nd, not the ASCII digits alone.
class_digit(char) == \E r \in NdRanges : r[1] <= char /\ char <= r[2]

\* (?i)K under Unicode simple case folding: K, k and U+212A KELVIN SIGN.
class_K(char) == char \in {UpperK, LowerK, KelvinSign}

\* char::to_uppercase for the characters a dv capture can hold: ASCII
\* lowercase letters map to uppercase, everything else maps to itself
\* (the Kelvin sign is already an uppercase letter).
to_uppercase(char) == IF char \in 97..122 THEN char - 32 ELSE char

----------------------------------------------------------------------------
(* Bounds *)

\* How many numbers are sampled below, inside and above the accepted range.
NumSamples == 24

----------------------------------------------------------------------------
(* Range Policy: src/src/range.rs *)

MIN == 1000000
MAX == 99999999

\* Range::to_u32
to_u32(range) == IF range = "MIN" THEN MIN ELSE MAX

----------------------------------------------------------------------------
(* Decimal rendering of a u32 *)

RECURSIVE to_string(_)
\* u32's Display / ToString: the decimal digits, most significant first,
\* no leading zero, "0" for zero.
to_string(number) ==
    IF number < 10 THEN <<Zero + number>>
    ELSE Append(to_string(number \div 10), Zero + (number % 10))

\* num_format's to_formatted_string(&Locale::es_CL): the decimal digits in
\* groups of three from the right, separated by '.'.
to_formatted_string(number) ==
    LET digits == to_string(number)
        n == Len(digits)
        \* the separators written before the digit at index i
        piece(i) == IF i > 1 /\ (n - i + 1) % 3 = 0 THEN <<Dot, digits[i]>>
                    ELSE <<digits[i]>>
        RECURSIVE build(_)
        build(i) == IF i > n THEN <<>> ELSE piece(i) \o build(i + 1)
    IN build(1)

----------------------------------------------------------------------------
(* Checksum Engine: src/src/utils.rs *)

Range_Init == 2
Range_Limit == 7

U8 == 256

mod_eleven(number) == 11 - (number % 11)

RECURSIVE rev(_)
rev(s) == IF s = <<>> THEN <<>> ELSE Append(rev(Tail(s)), Head(s))

\* number.to_string().chars().rev().map(to_digit(10)).map(unwrap).map(as u8)
reversed_numbers(number) ==
    LET chars == rev(to_string(number))
    IN [i \in 1..Len(chars) |-> to_digit(chars[i]).value]

limit_range(number) == IF number > Range_Limit THEN Range_Init ELSE number

\* The body of sum_product.  `total` is a u8: an addition that leaves 0..255
\* panics when the build checks overflow and wraps modulo 2^8 otherwise.
\* number * range is at most 9 * 7 and range + 1 at most 8: neither overflows.
sum_product(number) ==
    LET numbers == reversed_numbers(number)
        RECURSIVE loop(_, _, _)
        loop(i, total, range) ==
            IF i > Len(numbers) THEN [panic |-> FALSE, total |-> total]
            ELSE LET sum == total + numbers[i] * range
                 IN IF sum >= U8 /\ overflow_checks
                    THEN [panic |-> TRUE, total |-> 0]
                    ELSE loop(i + 1, sum % U8, limit_range(range + 1))
    IN loop(1, 0, Range_Init)

----------------------------------------------------------------------------
(* Results: Result<Rut, Error>, or an unwinding fault *)

\* dv_calls counts the invocations of generate_dv the call made.
Ok(number, dv, dv_calls) ==
    [kind |-> "Ok", number |-> number, dv |-> dv, must_be |-> 0, instead |-> 0,
     dv_calls |-> dv_calls]
Err_InvalidDV(must_be, instead, dv_calls) ==
    [kind |-> "InvalidDV", number |-> 0, dv |-> 0, must_be |-> must_be,
     instead |-> instead, dv_calls |-> dv_calls]
Err_InvalidFormat ==
    [kind |-> "InvalidFormat", number |-> 0, dv |-> 0, must_be |-> 0, instead |-> 0,
     dv_calls |-> 0]
Err_OutOfRange ==
    [kind |-> "OutOfRange", number |-> 0, dv |-> 0, must_be |-> 0, instead |-> 0,
     dv_calls |-> 0]
Panic(dv_calls) ==
    [kind |-> "Panic", number |-> 0, dv |-> 0, must_be |-> 0, instead |-> 0,
     dv_calls |-> dv_calls]
NoResult ==
    [kind |-> "None", number |-> 0, dv |-> 0, must_be |-> 0, instead |-> 0,
     dv_calls |-> 0]

----------------------------------------------------------------------------
(* Rut Entity: src/src/lib.rs *)

\* generate_dv storing the matched letter in lower case.
generate_dv_lowercase(number) ==
    LET total_number == sum_product(number)
        dv == mod_eleven(total_number.total)
    IN IF total_number.panic THEN [panic |-> TRUE, dv |-> 0]
       ELSE [panic |-> FALSE,
             dv |-> CASE dv = 10 -> LowerK
                      [] dv = 11 -> Zero
                      [] OTHER -> to_string(dv)[1]]

\* Rut::generate_dv; format!("{}", dv).chars().next() is the first decimal
\* digit of dv.
generate_dv(number) ==
    LET total_number == sum_product(number)
        dv == mod_eleven(total_number.total)
    IN IF total_number.panic THEN [panic |-> TRUE, dv |-> 0]
       ELSE [panic |-> FALSE,
             dv |-> CASE dv = 10 -> UpperK
                      [] dv = 11 -> Zero
                      [] OTHER -> to_string(dv)[1]]

\* from_number with the closed range min..=max.
from_number_inclusive(number) ==
    LET min == to_u32("MIN")
        max == to_u32("MAX")
    IN IF min <= number /\ number <= max
       THEN LET dv == generate_dv(number)
            IN IF dv.panic THEN Panic(1) ELSE Ok(number, dv.dv, 1)
       ELSE Err_OutOfRange

\* Rut::from_number; the range is min..max, upper bound excluded.
from_number(number) ==
    LET min == to_u32("MIN")
        max == to_u32("MAX")
    IN IF min <= number /\ number < max
       THEN LET dv == generate_dv(number)
            IN IF dv.panic THEN Panic(1) ELSE Ok(number, dv.dv, 1)
       ELSE Err_OutOfRange

\* Rut::to_format
to_format(rut, fmt) ==
    CASE fmt = "DOTS" -> to_formatted_string(rut.number) \o <<Hyphen, rut.dv>>
      [] fmt = "DASH" -> to_string(rut.number) \o <<Hyphen, rut.dv>>
      [] fmt = "NONE" -> to_string(rut.number) \o <<rut.dv>>

\* impl fmt::Display for Rut
Display_fmt(rut) == to_format(rut, "DASH")

\* Rut::check_dv; unwrap() of an Err(OutOfRange) panics.
check_dv(unsigned_rut) ==
    LET signed_rut == from_number(unsigned_rut.number)
    IN IF signed_rut.kind # "Ok" THEN Panic(signed_rut.dv_calls)
       ELSE IF unsigned_rut.dv # signed_rut.dv
            THEN Err_InvalidDV(signed_rut.dv, unsigned_rut.dv, signed_rut.dv_calls)
            ELSE signed_rut

----------------------------------------------------------------------------
(* Parser: PATTERN of src/src/utils.rs and Rut::extract_from *)

\* The positions at which the capture group `number` can end in a match of
\* the whole of PATTERN against input:
\*   ^(?P<number>\d{1,2}(?:\.)?\d{3}(?:\.)?\d{3})(?:-)?(?P<dv>(?i)K|\d)$
PATTERN(input) ==
    LET n == Len(input)
        digit(i) == i \in 1..n /\ class_digit(input[i])
        lit(i, char) == i \in 1..n /\ input[i] = char
        optional(P, char) == P \cup {p + 1 : p \in {q \in P : lit(q + 1, char)}}
        three(P) == {p + 3 : p \in {q \in P : digit(q + 1) /\ digit(q + 2) /\ digit(q + 3)}}
        lead == {p \in 1..2 : \A i \in 1..p : digit(i)}
        number == three(optional(three(optional(lead, Dot)), Dot))
        dv(p) == p = n /\ (class_K(input[p]) \/ class_digit(input[p]))
    IN {p \in number : \/ dv(p + 1)
                       \/ lit(p + 1, Hyphen) /\ dv(p + 2)}

is_match(input) == PATTERN(input) # {}

\* captures taking as dv the character that follows the number group.
captures_next_char(input) ==
    LET end == CHOOSE p \in PATTERN(input) : TRUE
    IN [number |-> SubSeq(input, 1, end), dv |-> <<input[end + 1]>>]

\* captures["number"] and captures["dv"]; the dv group is the last character.
captures(input) ==
    LET end == CHOOSE p \in PATTERN(input) : TRUE
    IN [number |-> SubSeq(input, 1, end), dv |-> <<input[Len(input)]>>]

\* replace leaving the separators in place.
replace_nothing(str) == str

\* str::replace(".", "")
replace(str) == SelectSeq(str, LAMBDA char : char # Dot)

\* str::parse::<u32>(): an optional '+', then ASCII digits only, the value
\* at most 2^32 - 1 = 4294967295.
parse(str) ==
    LET digits == IF str # <<>> /\ str[1] = 43 THEN Tail(str) ELSE str
        RECURSIVE loop(_, _)
        loop(i, acc) ==
            IF i > Len(digits) THEN [ok |-> TRUE, value |-> acc]
            ELSE LET d == to_digit(digits[i])
                 IN IF ~d.some THEN [ok |-> FALSE, value |-> 0]
                    ELSE IF acc > 429496729 \/ (acc = 429496729 /\ d.value > 5)
                         THEN [ok |-> FALSE, value |-> 0]
                         ELSE loop(i + 1, acc * 10 + d.value)
    IN IF digits = <<>> THEN [ok |-> FALSE, value |-> 0] ELSE loop(1, 0)

\* Rut::extract_from; parse().unwrap() panics on a digit that is not ASCII.
extract_from(input) ==
    IF is_match(input)
    THEN LET caps == captures(input)
             number == parse(replace(caps.number))
             dv == to_uppercase(caps.dv[1])
         IN IF ~number.ok THEN Panic(0) ELSE Ok(number.value, dv, 0)
    ELSE Err_InvalidFormat

\* Rut::from
from(text) ==
    LET extracted == extract_from(text)
    IN IF extracted.kind = "Ok" THEN check_dv(extracted) ELSE extracted

\* range::random_range / random_number: any value of min..max, max excluded.
random_range(min, max, draws) == {n \in draws : min <= n /\ n < max}

----------------------------------------------------------------------------
(* Inputs *)

Formats == {"DOTS", "DASH", "NONE"}

\* Numbers handed to from_number and generate_dv: the bounds and their
\* neighbours, the numbers of the crate's tests, numbers whose weighted sum
\* exceeds 255, and NumSamples numbers below, inside and above the range.
\* 2147483647 is the largest u32 the checker's integers can hold.
EdgeNumbers ==
    {0, 1, 999999, MIN, MIN + 1, 5665328, 12621806, 17951585, 24136773,
     19999999, 89999999, 99999998, MAX, MAX + 1, 2147483647}

SampleNumbers ==
    UNION {{(i * 41519) % MIN,
            MIN + ((i * 4099511) % (MAX - MIN)),
            MAX + i * 8000000} : i \in 1..NumSamples}

Numbers == EdgeNumbers \cup SampleNumbers

\* Texts handed to Rut::from: every concatenation of a leading group, a
\* separator pair, two groups of three, dashes and a tail.
Leads ==
    {<<53>>, <<49, 55>>, <<48, 48>>, <<57, 57>>,    \* "5" "17" "00" "99"
     <<1639>>,                                      \* U+0667 ARABIC-INDIC DIGIT SEVEN
     <<2406>>,                                      \* U+0966 DEVANAGARI DIGIT ZERO
     <<49, 50, 51>>, <<>>}                          \* "123" ""
Separators ==
    {<< <<>>, <<>> >>, << <<Dot>>, <<Dot>> >>, << <<Dot>>, <<>> >>,
     << <<>>, <<Dot>> >>, << <<Dot>>, <<Comma>> >>, << <<Comma>>, <<Comma>> >>}
Groups1 == {<<57, 53, 49>>, <<54, 54, 53>>, <<48, 48, 48>>, <<57, 57, 57>>}
Groups2 == {<<53, 56, 53>>, <<51, 50, 56>>, <<48, 48, 49>>, <<57, 57, 56>>,
            <<57, 57, 57>>}
Dashes == {<<>>, <<Hyphen>>, <<Hyphen, Hyphen>>}
Tails ==
    {<<48>>, <<51>>, <<55>>, <<57>>,                \* "0" "3" "7" "9"
     <<UpperK>>, <<LowerK>>, <<KelvinSign>>,
     <<65>>, <<1639>>, <<>>, <<55, 32>>,            \* "A" U+0667 "" "7 "
     <<2407>>, <<1781>>}                            \* U+0967, U+06F5

Texts ==
    {l \o s[1] \o g1 \o s[2] \o g2 \o d \o t :
        l \in Leads, s \in Separators, g1 \in Groups1, g2 \in Groups2,
        d \in Dashes, t \in Tails}

----------------------------------------------------------------------------
(* The caller: one construction, then renderings and re-parses of them *)

NoRut == [number |-> 0, dv |-> 0, via |-> "none"]
NoChecksum == [total |-> 0, residue |-> 0, dv |-> 0, panic |-> FALSE]

Init ==
    /\ overflow_checks \in BOOLEAN
    /\ op = "init"
    /\ number_arg = 0
    /\ input_text = <<>>
    /\ input_mode = "none"
    /\ unverified_rut = NoResult
    /\ result = NoResult
    /\ self = NoRut
    /\ format = "none"
    /\ output = <<>>
    /\ checksum = NoChecksum

\* Rut::from(input) on a text of the caller
Rut_from ==
    /\ op = "init"
    /\ \E text \in Texts :
        /\ input_text' = text
        /\ unverified_rut' = extract_from(text)
        /\ result' = from(text)
    /\ op' = "from"
    /\ input_mode' = "typed"
    /\ UNCHANGED <<overflow_checks, number_arg, self, format, output, checksum>>

\* Rut::from_number(number)
Rut_from_number ==
    /\ op = "init"
    /\ \E number \in Numbers :
        /\ number_arg' = number
        /\ result' = from_number(number)
    /\ op' = "from_number"
    /\ UNCHANGED <<overflow_checks, input_text, input_mode, unverified_rut, self,
                   format, output, checksum>>

\* Rut::randomize(): number is the draw of the random source
Rut_randomize ==
    /\ op = "init"
    /\ \E number \in random_range(MIN, MAX, Numbers) :
        /\ number_arg' = number
        /\ LET dv == generate_dv(number)
           IN result' = IF dv.panic THEN Panic(1) ELSE Ok(number, dv.dv, 1)
    /\ op' = "randomize"
    /\ UNCHANGED <<overflow_checks, input_text, input_mode, unverified_rut, self,
                   format, output, checksum>>

\* rut.to_format(fmt) on the Rut the last construction returned
Rut_to_format ==
    /\ op \in {"from", "from_number", "randomize"}
    /\ result.kind = "Ok"
    /\ \E fmt \in Formats :
        /\ format' = fmt
        /\ output' = to_format(result, fmt)
    /\ op' = "to_format"
    /\ self' = [number |-> result.number, dv |-> result.dv, via |-> op]
    /\ UNCHANGED <<overflow_checks, number_arg, input_text, input_mode,
                   unverified_rut, result, checksum>>

\* rut.to_string(), through impl Display
Rut_fmt ==
    /\ op \in {"from", "from_number", "randomize"}
    /\ result.kind = "Ok"
    /\ op' = "fmt"
    /\ self' = [number |-> result.number, dv |-> result.dv, via |-> op]
    /\ format' = "fmt"
    /\ output' = Display_fmt(result)
    /\ UNCHANGED <<overflow_checks, number_arg, input_text, input_mode,
                   unverified_rut, result, checksum>>

\* Rut::from on the String the last rendering returned
Rut_from_output ==
    /\ op \in {"to_format", "fmt"}
    /\ op' = "from"
    /\ input_text' = output
    /\ input_mode' = format
    /\ unverified_rut' = extract_from(output)
    /\ result' = from(output)
    /\ UNCHANGED <<overflow_checks, number_arg, self, format, output, checksum>>

\* Rut::generate_dv(number) on its own, with the values it passes through
Rut_generate_dv ==
    /\ op = "init"
    /\ \E number \in Numbers :
        /\ number_arg' = number
        /\ LET total == sum_product(number)
               dv == generate_dv(number)
           IN checksum' = [total |-> total.total,
                           residue |-> IF total.panic THEN 0
                                       ELSE mod_eleven(total.total),
                           dv |-> dv.dv, panic |-> dv.panic]
    /\ op' = "generate_dv"
    /\ UNCHANGED <<overflow_checks, input_text, input_mode, unverified_rut, result,
                   self, format, output>>

\* utils::mod_eleven(number) on any u8
utils_mod_eleven ==
    /\ op = "init"
    /\ \E number \in 0..(U8 - 1) :
        /\ number_arg' = number
        /\ checksum' = [total |-> number, residue |-> mod_eleven(number), dv |-> 0,
                        panic |-> FALSE]
    /\ op' = "mod_eleven"
    /\ UNCHANGED <<overflow_checks, input_text, input_mode, unverified_rut, result,
                   self, format, output>>

Next ==
    \/ Rut_from
    \/ Rut_from_number
    \/ Rut_randomize
    \/ Rut_to_format
    \/ Rut_fmt
    \/ Rut_from_output
    \/ Rut_generate_dv
    \/ utils_mod_eleven

Spec == Init /\ [][Next]_vars

----------------------------------------------------------------------------
(* Reference definitions the properties are stated with *)

InRange(number) == MIN <= number /\ number < MAX

RECURSIVE RefTotal(_, _)
\* The exact weighted digit sum: digit k (k = 0 for the least significant)
\* times the weight 2 + (k mod 6).
RefTotal(number, k) ==
    IF number < 10 THEN number * (2 + (k % 6))
    ELSE (number % 10) * (2 + (k % 6)) + RefTotal(number \div 10, k + 1)

\* The modulo-11 check character of number.
RefCheckDigit(number) ==
    LET residue == 11 - (RefTotal(number, 0) % 11)
    IN IF residue = 10 THEN UpperK
       ELSE IF residue = 11 THEN Zero
       ELSE Zero + residue

RECURSIVE RefValue(_)
\* The value of a sequence of ASCII digits read as a decimal numeral.
RefValue(digits) ==
    IF digits = <<>> THEN 0
    ELSE RefValue(SubSeq(digits, 1, Len(digits) - 1)) * 10
         + (digits[Len(digits)] - Zero)

IsAsciiDigit(char) == char \in AsciiDigits

\* A decimal numeral without leading zero.
IsNumeral(str) ==
    /\ Len(str) >= 1
    /\ \A i \in 1..Len(str) : IsAsciiDigit(str[i])
    /\ Len(str) > 1 => str[1] # Zero

\* The recognized shape: 1-2 digits, optional '.', 3 digits, optional '.',
\* 3 digits, optional '-', one check character (a digit, K or k).
HasShape(text) ==
    \E lead \in 1..2, d1 \in 0..1, d2 \in 0..1, h \in 0..1 :
        LET a == lead + d1
            b == a + 3 + d2
            c == b + 3 + h
        IN /\ Len(text) = c + 1
           /\ \A i \in 1..lead : IsAsciiDigit(text[i])
           /\ d1 = 1 => text[a] = Dot
           /\ \A i \in (a + 1)..(a + 3) : IsAsciiDigit(text[i])
           /\ d2 = 1 => text[b] = Dot
           /\ \A i \in (b + 1)..(b + 3) : IsAsciiDigit(text[i])
           /\ h = 1 => text[c] = Hyphen
           /\ IsAsciiDigit(text[c + 1]) \/ text[c + 1] \in {UpperK, LowerK}

\* The number and the check character a text of the recognized shape denotes.
ShapeNumber(text) ==
    RefValue(SelectSeq(SubSeq(text, 1, Len(text) - 1), IsAsciiDigit))
ShapeDv(text) ==
    IF text[Len(text)] = LowerK THEN UpperK ELSE text[Len(text)]

DvAlphabet == AsciiDigits \cup {UpperK}

ErrorKinds == {"InvalidFormat", "InvalidDV", "OutOfRange"}

----------------------------------------------------------------------------
(* Properties *)

\* C1: Rut::from returns a validated Rut or exactly one of the three errors
\* for every text; it never ends in an unrecoverable fault.
C1_FromNeverFaults ==
    op = "from" => result.kind \in {"Ok"} \cup ErrorKinds

\* C2: generate_dv returns without fault for every number, its 8-bit total
\* equals the exact weighted digit sum and its result is the reference
\* modulo-11 check character.
C2_GenerateDvIsReference ==
    op = "generate_dv" =>
        /\ ~checksum.panic
        /\ checksum.total = RefTotal(number_arg, 0)
        /\ checksum.dv = RefCheckDigit(number_arg)

\* C3: from_number succeeds on every number of [MIN, MAX), with number() the
\* input and dv() its check digit.
C3_FromNumberInRange ==
    (op = "from_number" /\ InRange(number_arg)) =>
        /\ result.kind = "Ok"
        /\ result.number = number_arg
        /\ result.dv = RefCheckDigit(number_arg)

\* C4: from_number on a number outside [MIN, MAX), MAX included, returns
\* Err(OutOfRange), no Rut, and never invokes the checksum computation.
C4_FromNumberOutOfRange ==
    (op = "from_number" /\ ~InRange(number_arg)) =>
        /\ result = Err_OutOfRange
        /\ result.dv_calls = 0

C4_Witness ==
    /\ op = "from_number"
    /\ number_arg = MAX
    /\ result.kind = "OutOfRange"

\* C5: every Rut a construction path returns has the modulo-11 check digit of
\* its number as dv and its number inside [MIN, MAX); randomize always
\* returns a Rut.
C5_ReturnedRutIsValid ==
    /\ result.kind = "Ok" =>
          /\ result.dv = RefCheckDigit(result.number)
          /\ InRange(result.number)
    /\ op = "randomize" => result.kind = "Ok"

\* C6: parsing the DASH rendering of a valid Rut returns a Rut with the same
\* number and dv, and the Display rendering is the DASH string: the decimal
\* numeral of the number, '-', the dv.
C6_DashRoundTrip ==
    /\ (op = "from" /\ input_mode \in {"DASH", "fmt"}) =>
          /\ result.kind = "Ok"
          /\ result.number = self.number
          /\ result.dv = self.dv
    /\ op \in {"fmt", "to_format"} /\ format \in {"DASH", "fmt"} =>
          LET n == Len(output)
          IN /\ n >= 3
             /\ output[n] = self.dv
             /\ output[n - 1] = Hyphen
             /\ IsNumeral(SubSeq(output, 1, n - 2))
             /\ RefValue(SubSeq(output, 1, n - 2)) = self.number

C6_Witness ==
    /\ op = "from"
    /\ input_mode = "DASH"
    /\ self.via = "from_number"
    /\ self.number = 17951585
    /\ input_text = <<49, 55, 57, 53, 49, 53, 56, 53, 45, 55>>
    /\ result.kind = "Ok"

\* C7: for each Format m, the rendering s of a valid Rut is accepted by
\* Rut::from with the same number and dv, and rendering the parsed Rut in m
\* again gives s; DOTS groups the numeral in threes from the right with '.'
\* before '-' and dv, NONE is the numeral followed by dv.
C7_FormatParseIdempotent ==
    /\ (op = "from" /\ input_mode \in Formats) =>
          /\ result.kind = "Ok"
          /\ result.number = self.number
          /\ result.dv = self.dv
    /\ (op = "to_format" /\ self.via = "from" /\ input_mode = format) =>
          output = input_text
    /\ (op = "to_format" /\ format = "NONE") =>
          LET n == Len(output)
          IN /\ n >= 2
             /\ output[n] = self.dv
             /\ IsNumeral(SubSeq(output, 1, n - 1))
             /\ RefValue(SubSeq(output, 1, n - 1)) = self.number
    /\ (op = "to_format" /\ format = "DOTS") =>
          LET n == Len(output)
              body == SubSeq(output, 1, n - 2)
          IN /\ n >= 3
             /\ output[n] = self.dv
             /\ output[n - 1] = Hyphen
             /\ \A i \in 1..(n - 2) :
                   (body[i] = Dot) <=> (i > 1 /\ (n - 2 - i + 1) % 4 = 0)
             /\ IsNumeral(SelectSeq(body, IsAsciiDigit))
             /\ Len(SelectSeq(body, IsAsciiDigit)) + Len(SelectSeq(body, LAMBDA c : c = Dot))
                    = n - 2
             /\ RefValue(SelectSeq(body, IsAsciiDigit)) = self.number

C7_Witness ==
    /\ op = "to_format"
    /\ format = "DOTS"
    /\ input_mode = "DOTS"
    /\ self.via = "from"
    /\ self.number = 5665328
    /\ output = <<53, 46, 54, 54, 53, 46, 51, 50, 56, 45, 55>>
    /\ output = input_text

\* C8: a text of the recognized shape whose uppercased check character
\* differs from the check digit computed for its number fails with
\* InvalidDV{must_be: computed, instead: claimed}; when they are equal the
\* validated Rut is returned.
C8_ShapeGivesInvalidDvOrRut ==
    (op = "from" /\ HasShape(input_text)) =>
        LET number == ShapeNumber(input_text)
            claimed == ShapeDv(input_text)
            computed == generate_dv(number)
        IN /\ ~computed.panic
           /\ claimed # computed.dv =>
                 /\ result.kind = "InvalidDV"
                 /\ result.must_be = computed.dv
                 /\ result.instead = claimed
           /\ claimed = computed.dv =>
                 /\ result.kind = "Ok"
                 /\ result.number = number
                 /\ result.dv = claimed

\* C9: extract_from succeeds exactly on the texts of the recognized shape,
\* with the body's digits as number and the uppercased check character as
\* dv; every other text fails with InvalidFormat and never with InvalidDV.
C9_ExtractIffShape ==
    op = "from" =>
        IF HasShape(input_text)
        THEN /\ unverified_rut.kind = "Ok"
             /\ unverified_rut.number = ShapeNumber(input_text)
             /\ unverified_rut.dv = ShapeDv(input_text)
        ELSE /\ unverified_rut.kind = "InvalidFormat"
             /\ result.kind = "InvalidFormat"

\* C10: the dv of every returned Rut is one of '0'..'9', 'K'; mod_eleven
\* returns a value of 1..11 for every 8-bit total, 10 is mapped to 'K', 11 to
\* '0' and any other value to its digit; 'k' is never stored.
C10_DvAlphabet ==
    /\ result.kind = "Ok" => result.dv \in DvAlphabet
    /\ op = "mod_eleven" => checksum.residue \in 1..11
    /\ (op = "generate_dv" /\ ~checksum.panic) =>
          /\ checksum.residue \in 1..11
          /\ checksum.residue = 10 => checksum.dv = UpperK
          /\ checksum.residue = 11 => checksum.dv = Zero
          /\ checksum.residue \in 1..9 => checksum.dv = Zero + checksum.residue

C10_Witness ==
    /\ op = "from"
    /\ input_mode = "typed"
    /\ input_text[Len(input_text)] = LowerK
    /\ result.kind = "Ok"
    /\ result.dv = UpperK

====
